---- MODULE Spec2Model ----
(***************************************************************************)
(* Model of the ZaraAI API integration manager                             *)
(* (src/api_integration_manager.py): the service registry, the in-memory   *)
(* TTL cache and the adapters behind LightweightAPIManager.make_api_call.  *)
(*                                                                         *)
(* Python dictionaries returned by the adapters are objects with identity: *)
(* every dictionary literal evaluated by the code allocates a new object,  *)
(* modelled by an "id" that no live object has (the ids of objects nothing *)
(* refers to any more are reused, as addresses are), and "born" is the     *)
(* time at which the call that built it completed.  The cache stores       *)
(* references (ids travel with the stored result).  time.time() is the     *)
(* variable clock, in seconds; it never runs backwards.                    *)
(***************************************************************************)
EXTENDS Integers, Sequences, FiniteSets, TLC

VARIABLES
    requests_available, \* the module-level name "requests" is not None
    api_key_set,        \* WolframAlphaAdapter.api_key is truthy
    probe,              \* what the probe of the constructor answered ("none": no probe made)
    probe_count,        \* number of connectivity probes made so far
    service_registry,   \* service name -> adapter class
    cache,              \* cache key -> [data, timestamp]
    offline_mode,       \* LightweightAPIManager.offline_mode
    clock,              \* time.time()
    okret,              \* ghost: cache key -> the last successful result returned for it
    last,               \* ghost: the make_api_call just made, its arguments and what it did
                        \* (age: the age of the entry under its key before it, -1: none)
    adapter_run,        \* ghost: the adapter method just called directly, and what it did
    cryptography_available, \* phase 8: the module-level name "cryptography" is not None
    instance,           \* the DefendIQSecurity object: its attributes and the keys they hold
    issued,             \* ghost: the ciphertexts _encrypt_data has returned so far
    enc_last,           \* ghost: the _encrypt_data call just made and what it returned
    domains,            \* phase 5: DomainMasteryManager.domains, domain name -> expert class
    dom_last,           \* ghost: the phase 5 call just made and what it did
    conversation_graph, \* phase 6: ContextMemory.conversation_graph, id -> memory entry
    emotional_timeline, \* ContextMemory.emotional_timeline, a deque
    max_memories,       \* ContextMemory.max_memories
    mem_time,           \* the time of the ContextMemory calls, in days
    mem_last            \* ghost: the ContextMemory call just made and what it did

\* The variables the manager's operations leave alone.
others == <<adapter_run, cryptography_available, instance, issued, enc_last>>

\* The variables of the phase 5 classes, which call the manager.
domain_vars == <<domains, dom_last>>

\* The variables of ContextMemory.
memory_vars == <<conversation_graph, emotional_timeline, max_memories, mem_time, mem_last>>

vars == <<requests_available, api_key_set, probe, probe_count, service_registry,
          cache, offline_mode, clock, okret, last, others, domain_vars, memory_vars>>

----------------------------------------------------------------------------
(* Bounds of the model *)

MaxClock == 300

(* Seconds the clock may advance between two calls.  A call itself takes   *)
(* no time: every time.time() of one make_api_call reads the same value.   *)
ClockSteps == {150}

----------------------------------------------------------------------------
(* Program constants *)

\* Variant: a TTL of 30 seconds.
cache_ttl_short == 300 \div 10

cache_ttl == 300

\* Variant: the relationship analyzer is not registered.
ServiceNames_eight ==
    {"wolfram_alpha", "math_computation", "calendar_simulator", "task_simulator",
     "data_analysis", "accounting_simulator", "agriculture_simulator",
     "project_simulator"}

ServiceNames == {"wolfram_alpha", "math_computation", "calendar_simulator",
                 "task_simulator", "data_analysis", "accounting_simulator",
                 "agriculture_simulator", "project_simulator", "relationship_analyzer"}

AdapterClass(name) ==
    CASE name = "wolfram_alpha"         -> "WolframAlphaAdapter"
      [] name = "math_computation"      -> "MathComputationAdapter"
      [] name = "calendar_simulator"    -> "CalendarAdapter"
      [] name = "task_simulator"        -> "TaskAdapter"
      [] name = "data_analysis"         -> "DataAnalysisAdapter"
      [] name = "accounting_simulator"  -> "AccountingAdapter"
      [] name = "agriculture_simulator" -> "AgricultureAdapter"
      [] name = "project_simulator"     -> "ProjectManagementAdapter"
      [] name = "relationship_analyzer" -> "RelationshipAdapter"

InitialRegistry == [n \in ServiceNames |-> AdapterClass(n)]

----------------------------------------------------------------------------
(* Inputs *)

\* Service names a caller may pass: registered ones and unregistered ones.
CallServices == {"wolfram_alpha", "data_analysis", "weather"}

Endpoints == {"query"}

\* The cache_key argument; NoKey is Python's None.
NoKey == "<None>"
CacheKeys == {NoKey, "", "k1", "k2"}

\* The params argument: None, or a dictionary that may hold a 'query',
\* a sequence of words.
NoneParams == [none |-> TRUE, has_query |-> FALSE, query |-> <<>>]
EmptyParams == [none |-> FALSE, has_query |-> FALSE, query |-> <<>>]
QueryParams(q) == [none |-> FALSE, has_query |-> TRUE, query |-> q]

ParamsSet == {NoneParams, EmptyParams, QueryParams(<<"Derivative", "of", "x^2">>)}

ProbeOutcomes == {"200", "500", "raise"}
WolframOutcomes == {"ok", "raise"}

\* Only the Wolfram Alpha adapter makes an outbound request, and only when
\* the manager is online and the adapter has an API key.
OutcomesFor(service_name) ==
    IF service_name = "wolfram_alpha" /\ ~offline_mode /\ api_key_set
    THEN WolframOutcomes ELSE {"ok"}

----------------------------------------------------------------------------
(* Dictionaries returned to the caller.  keys is the set of keys of the    *)
(* dictionary; a field whose key is absent holds "" or FALSE.              *)

Dict(keys, success, error, source, data, offline) ==
    [keys |-> keys, success |-> success, error |-> error, source |-> source,
     data |-> data, offline_mode |-> offline]

WithId(d, id, now) ==
    [id |-> id, born |-> now, keys |-> d.keys, success |-> d.success, error |-> d.error,
     source |-> d.source, data |-> d.data, offline_mode |-> d.offline_mode]

NoDict == Dict({}, FALSE, "", "", "", FALSE)

\* What a call on an adapter does: returns a dictionary or raises.
Returns(d) == [raised |-> FALSE, msg |-> "", res |-> d]
Raises(msg) == [raised |-> TRUE, msg |-> msg, res |-> NoDict]

NoneGetError == "'NoneType' object has no attribute 'get'"

----------------------------------------------------------------------------
(* WolframAlphaAdapter *)

Lower(w) ==
    CASE w = "Derivative" -> "derivative"
      [] w = "Integral"   -> "integral"
      [] w = "Solve"      -> "solve"
      [] w = "Calculate"  -> "calculate"
      [] OTHER            -> w

LowerQuery(q) == [i \in DOMAIN q |-> Lower(q[i])]

\* The patterns of the calculators that are substrings of a word.
Substrings(word) ==
    {word} \cup (CASE word = "2x = 8"   -> {"2x"}
                   [] word = "x^2 = 16" -> {"x^2"}
                   [] OTHER             -> {})

\* Python's "w in query" (substring test) on the words of the query.
Contains(q, w) == \E i \in DOMAIN q : w \in Substrings(q[i])

\* None, the result of a calculator that recognises no pattern.
NoAnswer == ""

_calculate_basic_derivative(query) ==
    IF Contains(query, "x^2") THEN "2x"
    ELSE IF Contains(query, "sin(x)") THEN "cos(x)"
    ELSE IF Contains(query, "cos(x)") THEN "-sin(x)"
    ELSE IF Contains(query, "e^x") THEN "e^x"
    ELSE NoAnswer

_calculate_basic_integral(query) ==
    IF Contains(query, "2x") THEN "x^2 + C"
    ELSE IF Contains(query, "cos(x)") THEN "sin(x) + C"
    ELSE IF Contains(query, "sin(x)") THEN "-cos(x) + C"
    ELSE NoAnswer

_solve_basic_equation(query) ==
    IF Contains(query, "2x = 8") THEN "x = 4"
    ELSE IF Contains(query, "x + 5 = 12") THEN "x = 7"
    ELSE IF Contains(query, "x^2 = 16") THEN "x = 4 or x = -4"
    ELSE NoAnswer

_calculate_expression(query) ==
    IF Contains(query, "2+2") THEN "4"
    ELSE IF Contains(query, "5*8") THEN "40"
    ELSE IF Contains(query, "15/3") THEN "5"
    ELSE NoAnswer

\* Variant: the keywords are tried from the last to the first.
math_responses_reversed == <<"calculate", "solve", "integral", "derivative">>

\* math_responses, in the insertion order of the dictionary.
math_responses == <<"derivative", "integral", "solve", "calculate">>

Calculator(math_type, query) ==
    CASE math_type = "derivative" -> _calculate_basic_derivative(query)
      [] math_type = "integral"   -> _calculate_basic_integral(query)
      [] math_type = "solve"      -> _solve_basic_equation(query)
      [] math_type = "calculate"  -> _calculate_expression(query)

\* The indices of math_responses at which the loop returns.
OfflineAnswers(query) ==
    {i \in DOMAIN math_responses :
        /\ Contains(query, math_responses[i])
        /\ Calculator(math_responses[i], query) # NoAnswer}

Min(S) == CHOOSE x \in S : \A y \in S : x <= y

\* Variant: the failure dictionary carries 'message' instead of 'error'.
Wolfram_get_offline_response_message(endpoint, params) ==
    IF params.none THEN Raises(NoneGetError)
    ELSE LET query == LowerQuery(params.query)
             found == OfflineAnswers(query)
         IN IF found # {}
            THEN Returns(Dict({"success", "data", "source", "cached"}, TRUE, "",
                              "offline_math",
                              Calculator(math_responses[Min(found)], query), FALSE))
            ELSE Returns(Dict({"success", "message", "suggestion"}, FALSE,
                              "", "", "", FALSE))

Wolfram_get_offline_response(endpoint, params) ==
    IF params.none THEN Raises(NoneGetError)
    ELSE LET query == LowerQuery(params.query)
             found == OfflineAnswers(query)
         IN IF found # {}
            THEN Returns(Dict({"success", "data", "source", "cached"}, TRUE, "",
                              "offline_math",
                              Calculator(math_responses[Min(found)], query), FALSE))
            ELSE Returns(Dict({"success", "error", "suggestion"}, FALSE,
                              "Offline math computation not available for this query",
                              "", "", FALSE))

\* outcome: what the outbound request does, "ok" or "raise".
Wolfram_make_call(endpoint, params, has_key, has_requests, outcome) ==
    IF ~has_key THEN Wolfram_get_offline_response(endpoint, params)
    ELSE IF params.none \/ ~has_requests \/ outcome = "raise"
         THEN Wolfram_get_offline_response(endpoint, params)
         ELSE Returns(Dict({"success", "data", "source"}, TRUE, "",
                           "wolfram_alpha", "wolfram_result", FALSE))

----------------------------------------------------------------------------
(* The simulated adapters *)

Math_make_call(endpoint, params) ==
    Returns(Dict({"success", "data", "source"}, TRUE, "", "math_computation",
                 "Math computation service ready", FALSE))

Math_get_offline_response(endpoint, params) ==
    Returns(Dict({"success", "data", "source"}, TRUE, "", "offline_math",
                 "Offline math computation available", FALSE))

\* Calendar, task, accounting, agriculture and project adapters: a fixed
\* dictionary whatever the params are.
Fixed_make_call(class, endpoint, params) ==
    Returns(Dict({"success", "data", "source"}, TRUE, "",
                 CASE class = "CalendarAdapter"          -> "calendar_simulation"
                   [] class = "TaskAdapter"              -> "task_simulation"
                   [] class = "AccountingAdapter"        -> "accounting_simulation"
                   [] class = "AgricultureAdapter"       -> "agriculture_simulation"
                   [] class = "ProjectManagementAdapter" -> "project_management_simulation",
                 "simulated", FALSE))

\* Data-analysis and relationship adapters read params.get(...).
Reading_make_call(class, endpoint, params) ==
    IF params.none THEN Raises(NoneGetError)
    ELSE Returns(Dict({"success", "data", "source"}, TRUE, "",
                      IF class = "DataAnalysisAdapter" THEN "data_analysis"
                                                       ELSE "relationship_analysis",
                      "simulated", FALSE))

\* The call reaches requests.get: only WolframAlphaAdapter.make_call has one,
\* behind the test of the API key and the building of full_params.
Outbound(class, method, params, has_key, has_requests) ==
    /\ class = "WolframAlphaAdapter"
    /\ method = "make_call"
    /\ has_key
    /\ ~params.none
    /\ has_requests

\* adapter.make_call(endpoint, params)
make_call(class, endpoint, params, has_key, has_requests, outcome) ==
    CASE class = "WolframAlphaAdapter" ->
            Wolfram_make_call(endpoint, params, has_key, has_requests, outcome)
      [] class = "MathComputationAdapter" -> Math_make_call(endpoint, params)
      [] class \in {"DataAnalysisAdapter", "RelationshipAdapter"} ->
            Reading_make_call(class, endpoint, params)
      [] OTHER -> Fixed_make_call(class, endpoint, params)

\* adapter.get_offline_response(endpoint, params)
get_offline_response(class, endpoint, params) ==
    CASE class = "WolframAlphaAdapter" -> Wolfram_get_offline_response(endpoint, params)
      [] class = "MathComputationAdapter" -> Math_get_offline_response(endpoint, params)
      [] class \in {"DataAnalysisAdapter", "RelationshipAdapter"} ->
            Reading_make_call(class, endpoint, params)
      [] OTHER -> Fixed_make_call(class, endpoint, params)

----------------------------------------------------------------------------
(* LightweightAPIManager *)

\* Variant: any answer of the probe counts as connectivity.
_check_connectivity_any_answer(has_requests, answer) ==
    IF ~has_requests THEN TRUE
    ELSE IF answer = "raise" THEN TRUE
    ELSE FALSE

\* The value _check_connectivity leaves in offline_mode; answer is what the
\* probe does: a status code or "raise".
_check_connectivity(has_requests, answer) ==
    IF ~has_requests THEN TRUE
    ELSE IF answer = "raise" THEN TRUE
    ELSE answer # "200"

\* Variant: only None counts as no key.
Truthy_not_none(cache_key) == cache_key # NoKey

\* Python's truth value of the cache_key argument.
Truthy(cache_key) == cache_key # NoKey /\ cache_key # ""

\* Variant: the comparison with the TTL is inverted.
CacheFresh_inverted(c, cache_key, now) ==
    /\ Truthy(cache_key)
    /\ cache_key \in DOMAIN c
    /\ now - c[cache_key].timestamp > cache_ttl

\* Variant: an entry never expires.
CacheFresh_no_expiry(c, cache_key, now) ==
    /\ Truthy(cache_key)
    /\ cache_key \in DOMAIN c

\* Variant: an entry of exactly the TTL is still served.
CacheFresh_inclusive(c, cache_key, now) ==
    /\ Truthy(cache_key)
    /\ cache_key \in DOMAIN c
    /\ now - c[cache_key].timestamp <= cache_ttl

\* "cache_key and cache_key in self.cache" and the entry is younger than the TTL.
CacheFresh(c, cache_key, now) ==
    /\ Truthy(cache_key)
    /\ cache_key \in DOMAIN c
    /\ now - c[cache_key].timestamp < cache_ttl

\* The 'source' values of the dictionaries the adapter of a service builds.
SourcesOf(name) ==
    CASE name = "wolfram_alpha"         -> {"wolfram_alpha", "offline_math"}
      [] name = "math_computation"      -> {"math_computation", "offline_math"}
      [] name = "calendar_simulator"    -> {"calendar_simulation"}
      [] name = "task_simulator"        -> {"task_simulation"}
      [] name = "data_analysis"         -> {"data_analysis"}
      [] name = "accounting_simulator"  -> {"accounting_simulation"}
      [] name = "agriculture_simulator" -> {"agriculture_simulation"}
      [] name = "project_simulator"     -> {"project_management_simulation"}
      [] name = "relationship_analyzer" -> {"relationship_analysis"}
      [] OTHER                          -> {}

\* Variant: an entry is served only to the service whose adapter built it.
Path_per_service(registry, c, service_name, cache_key, now) ==
    IF service_name \notin DOMAIN registry THEN "error"
    ELSE IF /\ CacheFresh(c, cache_key, now)
            /\ c[cache_key].data.source \in SourcesOf(service_name)
         THEN "hit"
    ELSE "miss"

\* Variant: the cache is consulted before the registry.
Path_cache_first(registry, c, service_name, cache_key, now) ==
    IF CacheFresh(c, cache_key, now) THEN "hit"
    ELSE IF service_name \notin DOMAIN registry THEN "error"
    ELSE "miss"

\* The branch make_api_call takes.
Path(registry, c, service_name, cache_key, now) ==
    IF service_name \notin DOMAIN registry THEN "error"
    ELSE IF CacheFresh(c, cache_key, now) THEN "hit"
    ELSE "miss"

\* Variant: the two modes are swapped.
ChooseMethod_swapped(offline) == IF offline THEN "make_call" ELSE "get_offline_response"

\* The adapter method a miss invokes.
ChooseMethod(offline) == IF offline THEN "get_offline_response" ELSE "make_call"

\* Variant: an adapter error switches the manager to offline mode.
OfflineAfterCall_on_error(offline, raised) == offline \/ raised

\* offline_mode after a make_api_call whose adapter call raised or not.
OfflineAfterCall(offline, raised) == offline

\* Variant: after an adapter error or an unsuccessful result the offline
\* method is tried as well.
Invocations_retry(method, out) ==
    IF out.raised \/ ~out.res.success
    THEN <<method, "get_offline_response">> ELSE <<method>>

\* The adapter methods a miss invokes, in order: the try block holds one
\* call and the except clause none.
Invocations(method, out) == <<method>>

\* Variant: no except clause.
Handle_no_catch(out) == IF out.raised THEN "propagated" ELSE "returned"

\* What the try block does with the outcome of the adapter call.
Handle(out) == IF out.raised THEN "caught" ELSE "returned"

\* Variant: every result is stored.
ShouldStore_any(cache_key, result) == Truthy(cache_key)

\* "if cache_key and result.get('success')"
ShouldStore(cache_key, result) == Truthy(cache_key) /\ result.success

\* Variant: a failed refresh drops the entry under the key.
CacheAfterMiss_evict(c, cache_key, result, now) ==
    IF ShouldStore(cache_key, result)
    THEN (cache_key :> [data |-> result, timestamp |-> now]) @@ c
    ELSE [k \in DOMAIN c \ {cache_key} |-> c[k]]

\* Variant: a failed refresh stamps the entry under the key anew.
CacheAfterMiss_restamp(c, cache_key, result, now) ==
    IF ShouldStore(cache_key, result)
    THEN (cache_key :> [data |-> result, timestamp |-> now]) @@ c
    ELSE IF cache_key \in DOMAIN c
         THEN (cache_key :> [data |-> c[cache_key].data, timestamp |-> now]) @@ c
         ELSE c

\* The cache after a miss whose adapter call returned result at time now.
CacheAfterMiss(c, cache_key, result, now) ==
    IF ShouldStore(cache_key, result)
    THEN (cache_key :> [data |-> result, timestamp |-> now]) @@ c
    ELSE c

\* Variant: a hit stamps the entry anew (sliding expiration).
CacheAfterHit_sliding(c, cache_key, now) ==
    (cache_key :> [data |-> c[cache_key].data, timestamp |-> now]) @@ c

\* The cache after a hit: the branch returns the stored data and assigns nothing.
CacheAfterHit(c, cache_key, now) == c

_error_response(message, offline) ==
    Dict({"success", "error", "timestamp", "offline_mode"}, FALSE, message, "", "", offline)

NoCall ==
    [service_name |-> "", cache_key |-> NoKey,
     age |-> -1, path |-> "none", invoked |-> <<>>, network |-> FALSE,
     raised |-> FALSE,
     propagated |-> FALSE, result |-> WithId(NoDict, 0, 0)]

\* The ids of the objects something refers to: the cache, the caller of
\* the last call.
LiveIds ==
    {cache[k].data.id : k \in DOMAIN cache} \cup {okret[k].id : k \in DOMAIN okret}
        \cup {last.result.id}

\* The id of a new object: a positive one when the object is about to be
\* stored in the cache, a negative one when only the caller will hold it.
FreshId(stored) ==
    IF stored THEN Min((1 .. Cardinality(LiveIds) + 1) \ LiveIds)
    ELSE IF last.result.id = -1 THEN -2 ELSE -1

----------------------------------------------------------------------------
(* DefendIQSecurity (src/phase8-enterprise_integration.py) *)

\* security_levels[level]['encryption']: False, True or 'end_to_end'.
SecurityLevels == {"public", "confidential", "highly_sensitive"}

EncryptionSetting(level) ==
    CASE level = "public"           -> "False"
      [] level = "confidential"     -> "True"
      [] level = "highly_sensitive" -> "end_to_end"

\* Python's truth value of an 'encryption' setting.
SettingOn(setting) == setting \notin {"False", ""}

\* What Fernet.generate_key() may return.
FernetKeys == {"key_a", "key_b"}

NoFernetKey == "<no key>"

\* The data argument: a dictionary or not, with its content; json.dumps
\* raises TypeError on a dictionary with a value it cannot serialise.
Plain(is_dict, serialisable, text) ==
    [is_dict |-> is_dict, serialisable |-> serialisable, text |-> text]

NoData == Plain(FALSE, TRUE, "")

DataSet ==
    {Plain(FALSE, TRUE, "hello"), Plain(TRUE, TRUE, "setup: initial"),
     Plain(TRUE, FALSE, "setup: <object>")}

\* json.dumps(data) of a dictionary, str(data) of anything else.
DataStr(data) == IF data.is_dict THEN <<"json", data.text>> ELSE <<"str", data.text>>

\* fernet.encrypt(data_str.encode()).decode(): a token that only the key it
\* was made under decrypts.
FernetToken(key, data_str) == [under |-> key, of |-> data_str]

NoToken == FernetToken(NoFernetKey, <<>>)

\* The value _encrypt_data returns: the data argument itself (is_input) or a
\* new dictionary with the given keys.
Returned(is_input, keys, encrypted, plain, token, key_id, warning) ==
    [is_input |-> is_input, keys |-> keys, encrypted |-> encrypted, plain |-> plain,
     token |-> token, key_id |-> key_id, warning |-> warning]

\* Variant: the dictionary names the key under 'key_id'.
KeyId_actual(key) == key

\* The 'key_id' of the returned dictionary.
KeyId(key) == "env_derived"

\* _encrypt_data(data, security_config) when Fernet.generate_key() gives key.
_encrypt_data(data, setting, library, key) ==
    IF ~SettingOn(setting) \/ ~library
    THEN Returned(TRUE, {}, FALSE, data, NoToken, "", "")
    ELSE IF data.is_dict /\ ~data.serialisable
         THEN Returned(FALSE, {"encrypted", "data", "warning"}, FALSE, data, NoToken,
                       "", "encryption_unavailable")
         ELSE Returned(FALSE, {"encrypted", "data", "key_id"}, TRUE, NoData,
                       FernetToken(key, DataStr(data)), KeyId(key), "")

\* The object _encrypt_data is called on.  __init__ assigns security_levels
\* and then calls _initialize_threat_detection, which the class does not
\* define; no attribute holds a key.
NewInstance == [attrs |-> {"security_levels"}, keys |-> {}]

\* The attributes after _encrypt_data: key and fernet are local names.
InstanceAfterEncrypt(inst, key) == inst

NoEncrypt ==
    [called |-> FALSE, data |-> NoData, setting |-> "", key |-> NoFernetKey,
     result |-> Returned(TRUE, {}, FALSE, NoData, NoToken, "", "")]

----------------------------------------------------------------------------
(* Phase 5: MathematicsMastery and DomainMasteryManager                     *)
(* (src/phase5-domain_foundations.py)                                       *)

\* The message of the AttributeError raised by a call of a method that the
\* class of the object does not define.
AttributeErrorOf(class, name) ==
    "'" \o class \o "' object has no attribute '" \o name \o "'"

\* What a phase 5 method does: returns a dictionary (its keys, its leading
\* text, the domain names it lists) or raises.
Responds(keys, text, listed) ==
    [raised |-> FALSE, msg |-> "", keys |-> keys, text |-> text, listed |-> listed]

Fails(msg) == [raised |-> TRUE, msg |-> msg, keys |-> {}, text |-> "", listed |-> <<>>]

MathProficiency == {"BEGINNER", "INTERMEDIATE", "ADVANCED", "EXPERT"}

\* MathProficiency.<level>.value
LevelValue(level) ==
    CASE level = "BEGINNER"     -> 1
      [] level = "INTERMEDIATE" -> 2
      [] level = "ADVANCED"     -> 3
      [] level = "EXPERT"       -> 4

\* The user_level argument: None, a member of MathProficiency, or the
\* non-empty user_context dictionary get_domain_expertise passes on.
NoLevel == "<None>"
ContextDict == "<user_context>"
UserLevels == MathProficiency \cup {NoLevel, ContextDict}

\* MathematicsMastery.user_proficiency, assigned by __init__ only.
user_proficiency == "BEGINNER"

\* "user_level or self.user_proficiency"
EffectiveLevel(user_level) == IF user_level = NoLevel THEN user_proficiency ELSE user_level

\* "level.value >= MathProficiency.INTERMEDIATE.value"
Consults(level) ==
    level \in MathProficiency /\ LevelValue(level) >= LevelValue("INTERMEDIATE")

\* The problem texts, as sequences of words.
Problems == {<<"Derivative", "of", "x^2">>, <<"2+2">>, <<"hello">>}

\* str(hash(problem_text)), fixed for the run of the interpreter.
HashOf(problem_text) ==
    CASE problem_text = <<"Derivative", "of", "x^2">> -> "7301"
      [] problem_text = <<"2+2">>                      -> "-5512"
      [] OTHER                                         -> "918"

\* f"math_{hash(problem_text)}"
MathKey(problem_text) == "math_" \o HashOf(problem_text)

\* _create_math_response: the dictionary literal calls
\* self._suggest_next_steps(level), which MathematicsMastery does not define.
_create_math_response(solution, level) ==
    Fails(AttributeErrorOf("MathematicsMastery", "_suggest_next_steps"))

\* The solution _local_math_solution passes to _create_math_response.
LocalSolution(problem_text, level) ==
    LET problem_lower == LowerQuery(problem_text)
    IN IF level = "BEGINNER" /\ Contains(problem_lower, "2+2") THEN "4"
       ELSE IF level = "BEGINNER" /\ Contains(problem_lower, "5*8") THEN "40"
       ELSE IF level = "INTERMEDIATE" /\ Contains(problem_lower, "derivative")
                                      /\ Contains(problem_lower, "x^2") THEN "2x"
       ELSE IF level = "INTERMEDIATE" /\ Contains(problem_lower, "integral")
                                      /\ Contains(problem_lower, "2x") THEN "x^2 + C"
       ELSE "I'd love to help you solve this!"

_local_math_solution(problem_text, level) ==
    _create_math_response(LocalSolution(problem_text, level), level)

\* The except clause of solve_problem: it calls
\* self._compassionate_math_error, which MathematicsMastery does not define.
MathHandler(out) ==
    IF out.raised
    THEN Fails(AttributeErrorOf("MathematicsMastery", "_compassionate_math_error"))
    ELSE out

\* solve_problem after the call of the API manager, if one was made
\* (consulted) and whether its result reports success.
solve_problem(problem_text, user_level, consulted, api_success) ==
    LET level == EffectiveLevel(user_level)
    IN MathHandler(
          IF level \notin MathProficiency
          THEN Fails(AttributeErrorOf("dict", "value"))
          ELSE IF consulted /\ api_success
               THEN Fails(AttributeErrorOf("MathematicsMastery", "_format_math_response"))
               ELSE _local_math_solution(problem_text, level))

\* DomainMasteryManager.domains as the dictionary literal of __init__ lists it.
\* (The construction of PerformanceManagement calls _initialize_okr_system,
\* which that class does not define; the manager is taken with its domains.)
DomainOrder ==
    <<"mathematics", "accounting", "data_analysis", "performance_management",
      "fault_management", "agriculture", "project_management",
      "relationship_intelligence">>

ExpertClass(domain_name) ==
    CASE domain_name = "mathematics"               -> "MathematicsMastery"
      [] domain_name = "accounting"                -> "AccountingMastery"
      [] domain_name = "data_analysis"             -> "DataAnalysisMastery"
      [] domain_name = "performance_management"    -> "PerformanceManagement"
      [] domain_name = "fault_management"          -> "FaultManagement"
      [] domain_name = "agriculture"               -> "AgricultureExpertise"
      [] domain_name = "project_management"        -> "ProjectManagementExpertise"
      [] domain_name = "relationship_intelligence" -> "RelationshipIntelligence"

InitialDomains ==
    [d \in {DomainOrder[i] : i \in DOMAIN DomainOrder} |-> ExpertClass(d)]

\* hasattr(domain_expert, name) for the three names get_domain_expertise tests.
HasAttr(class, name) ==
    \/ class = "MathematicsMastery" /\ name = "solve_problem"
    \/ class = "AccountingMastery" /\ name = "analyze_financial_statement"
    \/ class = "RelationshipIntelligence" /\ name = "analyze_relationship_health"

\* Variant: no test of the domain name; an unknown name gets the generic response.
Route_no_fallback(doms, domain_name) ==
    IF domain_name \notin DOMAIN doms THEN "_generic_domain_response"
    ELSE IF HasAttr(doms[domain_name], "solve_problem") THEN "solve_problem"
    ELSE IF HasAttr(doms[domain_name], "analyze_financial_statement")
         THEN "analyze_financial_statement"
    ELSE IF HasAttr(doms[domain_name], "analyze_relationship_health")
         THEN "analyze_relationship_health"
    ELSE "_generic_domain_response"

\* The method get_domain_expertise hands the query to.
Route(doms, domain_name) ==
    IF domain_name \notin DOMAIN doms THEN "_compassionate_fallback"
    ELSE IF HasAttr(doms[domain_name], "solve_problem") THEN "solve_problem"
    ELSE IF HasAttr(doms[domain_name], "analyze_financial_statement")
         THEN "analyze_financial_statement"
    ELSE IF HasAttr(doms[domain_name], "analyze_relationship_health")
         THEN "analyze_relationship_health"
    ELSE "_generic_domain_response"

_compassionate_fallback(domain_name, query) ==
    Responds({"response", "suggestion", "support_message"},
             "I'm still learning about " \o domain_name \o ", but I care about your question",
             DomainOrder)

\* The except clause of get_domain_expertise: it calls
\* self._compassionate_error_response, which DomainMasteryManager does not define.
DomainHandler(out) ==
    IF out.raised
    THEN Fails(AttributeErrorOf("DomainMasteryManager", "_compassionate_error_response"))
    ELSE out

\* What the routed method does after its call of the API manager, if it
\* makes one: each ends in a call of a method its class does not define.
ExpertOutcome(route, query, user_context) ==
    CASE route = "solve_problem" ->
            solve_problem(query, user_context, FALSE, FALSE)
      [] route = "analyze_financial_statement" ->
            Fails(AttributeErrorOf("AccountingMastery", "_analyze_income_statement"))
      [] route = "analyze_relationship_health" ->
            Fails(AttributeErrorOf("RelationshipIntelligence", "_identify_growth_areas"))
      [] route = "_generic_domain_response" ->
            Fails(AttributeErrorOf("DomainMasteryManager", "_generic_domain_response"))

\* The service a routed method asks the API manager for ("": none).
ServiceOfRoute(route) ==
    CASE route = "analyze_financial_statement" -> "accounting_simulator"
      [] route = "analyze_relationship_health" -> "relationship_analyzer"
      [] OTHER                                 -> ""

NoDomainCall ==
    [op |-> "", domain |-> "", problem |-> <<>>, user_level |-> NoLevel,
     route |-> "", consulted |-> FALSE, api_service |-> "", api_key |-> NoKey,
     api_success |-> FALSE, out |-> Fails("")]

----------------------------------------------------------------------------
(* Phase 6: ContextMemory (src/phase6-intelligence_enhancement.py).         *)
(* Scores are in tenths; time is in days.                                   *)

\* ContextMemory.__init__(max_memories=1000)
default_max_memories == 1000

\* deque(maxlen=500)
timeline_maxlen == 500

\* What a method of ContextMemory does when it raises; id and memories are
\* the conversation id or the list of memories of a return.
MemRaises(msg) == [raised |-> TRUE, msg |-> msg, id |-> -1, memories |-> <<>>]

\* The analysis dictionary: analysis['emotional_tone']['tone'] and
\* analysis['domain_intent']['domain'].
Analysis(tone, domain) == [tone |-> tone, domain |-> domain]

\* AdvancedNLP._analyze_emotional_tone and _detect_domain_intent on the
\* texts of the model.
ToneOf(text) ==
    CASE text = "i love math help" -> "positive"
      [] text = "i feel sad"       -> "supportive"
      [] OTHER                     -> "neutral"

DomainOf(text) ==
    CASE text = "i love math help" -> "mathematics"
      [] OTHER                     -> "general"

\* "any(phrase in user_input.lower() for phrase in relationship_phrases)"
HasRelationshipPhrase(text) == text = "you know me"

\* _calculate_significance, in tenths
_calculate_significance(user_input, analysis) ==
    LET score == (IF analysis.tone \in {"supportive", "positive"} THEN 3 ELSE 0)
                 + (IF analysis.domain # "general" THEN 2 ELSE 0)
                 + (IF HasRelationshipPhrase(user_input) THEN 5 ELSE 0)
    IN IF score < 10 THEN score ELSE 10

\* hashlib.md5(f"{user_input}{time.time()}").hexdigest()[:8]: the id of a
\* store is taken as the time of the store, which differs from call to call.
ConversationId(user_input, now) == now

memory_entry(user_input, analysis, now) ==
    [timestamp |-> now, user_input |-> user_input, emotional_tone |-> analysis.tone,
     domain_intent |-> analysis.domain,
     significance_score |-> _calculate_significance(user_input, analysis)]

TimelineEntry(entry) ==
    [timestamp |-> entry.timestamp, tone |-> entry.emotional_tone,
     domain |-> entry.domain_intent]

\* Variant: a plain list.
DequeAppend_unbounded(q, x, maxlen) == Append(q, x)

\* deque.append on a deque with maxlen: a full deque drops its first item.
DequeAppend(q, x, maxlen) ==
    IF Len(q) >= maxlen THEN Append(Tail(q), x) ELSE Append(q, x)

\* store_conversation after its two assignments: it calls
\* self._check_milestones (and then self._clean_old_memories), which
\* ContextMemory does not define.
StoreOutcome(id) == MemRaises(AttributeErrorOf("ContextMemory", "_check_milestones"))

\* get_relevant_context: its first statement constructs AdvancedNLP(), whose
\* __init__ calls self._build_semantic_clusters, which AdvancedNLP does not
\* define.
get_relevant_context(graph, current_input, max_context, now) ==
    MemRaises(AttributeErrorOf("AdvancedNLP", "_build_semantic_clusters"))

NoMemoryCall ==
    [op |-> "", user_input |-> "", analysis |-> Analysis("", ""), max_context |-> 0,
     before |-> 0, out |-> MemRaises("")]

\* No adapter method has been called directly.
NoRun ==
    [class |-> "", method |-> "", params |-> NoneParams, outcome |-> "",
     network |-> FALSE, out |-> Raises("")]

ManagerInit ==
    /\ requests_available \in BOOLEAN
    /\ probe \in IF requests_available THEN ProbeOutcomes ELSE {"none"}
    \* WOLFRAM_ALPHA_API_KEY is read by make_call only; it is taken as unset
    \* when the manager starts offline.
    /\ api_key_set \in IF probe = "200" THEN BOOLEAN ELSE {FALSE}
    /\ probe_count = IF requests_available THEN 1 ELSE 0
    /\ service_registry = InitialRegistry
    /\ cache = <<>>
    /\ offline_mode = _check_connectivity(requests_available, probe)
    /\ clock = 0
    /\ okret = <<>>
    /\ last = NoCall
    /\ adapter_run = NoRun
    /\ domains = InitialDomains
    /\ dom_last = NoDomainCall
    /\ conversation_graph = <<>>
    /\ emotional_timeline = <<>>
    /\ mem_time = 0
    /\ mem_last = NoMemoryCall

\* The state after the construction of the manager; the cipher library is
\* not installed.
Init ==
    /\ ManagerInit
    /\ max_memories = default_max_memories
    /\ cryptography_available = FALSE
    /\ instance = NewInstance
    /\ issued = {}
    /\ enc_last = NoEncrypt

\* make_api_call(service_name, endpoint, params, cache_key).  outcome is
\* what an outbound request of the adapter does.
MakeApiCall(service_name, endpoint, params, cache_key, outcome) ==
    LET path == Path(service_registry, cache, service_name, cache_key, clock)
        method == ChooseMethod(offline_mode)
        class == service_registry[service_name]
        out == IF method = "get_offline_response"
               THEN get_offline_response(class, endpoint, params)
               ELSE make_call(class, endpoint, params, api_key_set,
                              requests_available, outcome)
        done == clock
        next_id == FreshId(path = "miss" /\ ~out.raised /\ ShouldStore(cache_key, out.res))
        returned == CASE path = "error" ->
                           WithId(_error_response("Service " \o service_name
                                                  \o " not available", offline_mode),
                                  next_id, done)
                      [] path = "hit" -> cache[cache_key].data
                      [] path = "miss" /\ Handle(out) = "returned" /\ ~out.raised ->
                           WithId(out.res, next_id, done)
                      [] path = "miss" /\ Handle(out) = "caught" ->
                           WithId(_error_response("API call failed: " \o out.msg,
                                                  offline_mode), next_id, done)
                      [] OTHER -> WithId(NoDict, 0, done)
    IN /\ cache' = IF path = "miss" /\ ~out.raised
                   THEN CacheAfterMiss(cache, cache_key, returned, done)
                   ELSE IF path = "hit" THEN CacheAfterHit(cache, cache_key, clock)
                   ELSE cache
       /\ clock' = done
       /\ okret' = IF path # "error" /\ Truthy(cache_key) /\ returned.success
                   THEN (cache_key :> [id |-> returned.id,
                                       ts |-> IF path = "hit" /\ cache_key \in DOMAIN okret
                                                 /\ okret[cache_key].id = returned.id
                                              THEN okret[cache_key].ts ELSE done])
                        @@ okret
                   ELSE okret
       /\ last' = [service_name |-> service_name,
                   cache_key |-> cache_key,
                   age |-> IF cache_key \in DOMAIN cache
                           THEN clock - cache[cache_key].timestamp ELSE -1,
                   path |-> path,
                   invoked |-> IF path = "miss" THEN Invocations(method, out) ELSE <<>>,
                   network |-> path = "miss" /\ Outbound(class, method, params, api_key_set,
                                                          requests_available),
                   raised |-> path = "miss" /\ out.raised,
                   propagated |-> path = "miss" /\ out.raised /\ Handle(out) # "caught",
                   result |-> returned]
       /\ offline_mode' = OfflineAfterCall(offline_mode, path = "miss" /\ out.raised)
       /\ UNCHANGED <<requests_available, api_key_set, probe, probe_count,
                      service_registry, others>>

\* Time passes between two calls; the caller drops the result of the last one.
Tick(d) ==
    /\ clock + d <= MaxClock
    /\ clock' = clock + d
    /\ last' = NoCall
    /\ UNCHANGED <<requests_available, api_key_set, probe, probe_count,
                   service_registry, cache, offline_mode, okret, others, domain_vars,
                   memory_vars>>

Next ==
    \/ \E service_name \in CallServices, endpoint \in Endpoints, params \in ParamsSet,
          cache_key \in CacheKeys :
          \E outcome \in OutcomesFor(service_name) :
             /\ MakeApiCall(service_name, endpoint, params, cache_key, outcome)
             /\ UNCHANGED <<domain_vars, memory_vars>>
    \/ \E d \in ClockSteps : Tick(d)

Spec == Init /\ [][Next]_vars

----------------------------------------------------------------------------
(* The adapters called directly, as phase code and the test block may do *)

AdapterMethods == {"make_call", "get_offline_response"}

AdapterParams ==
    ParamsSet \cup {QueryParams(<<"Solve", "2x = 8">>), QueryParams(<<"hello">>),
                    QueryParams(<<"Integral", "of", "x^2">>),
                    QueryParams(<<"Integral", "of", "the", "derivative", "of", "cos(x)">>),
                    QueryParams(<<"Derivative", "of", "y", "then", "Calculate", "2+2">>),
                    QueryParams(<<"Integral", "x^2 = 16">>),
                    QueryParams(<<"Solve", "the", "integral", "2x = 8">>)}

\* service_registry[name].<method>(endpoint, params)
RunAdapter(name, method, endpoint, params, outcome) ==
    LET class == service_registry[name]
    IN /\ adapter_run' =
            [class |-> class, method |-> method, params |-> params, outcome |-> outcome,
             network |-> Outbound(class, method, params, api_key_set, requests_available),
             out |-> IF method = "get_offline_response"
                     THEN get_offline_response(class, endpoint, params)
                     ELSE make_call(class, endpoint, params, api_key_set,
                                    requests_available, outcome)]
       /\ UNCHANGED <<requests_available, api_key_set, probe, probe_count,
                      service_registry, cache, offline_mode, clock, okret, last,
                      cryptography_available, instance, issued, enc_last, domain_vars,
                      memory_vars>>

AdapterNext ==
    \E name \in ServiceNames, method \in AdapterMethods, endpoint \in Endpoints,
       params \in AdapterParams, outcome \in WolframOutcomes :
       RunAdapter(name, method, endpoint, params, outcome)

AdapterSpec == Init /\ [][AdapterNext]_vars

----------------------------------------------------------------------------
(* DefendIQSecurity._encrypt_data called on its own *)

SecurityInit ==
    /\ ManagerInit
    /\ max_memories = default_max_memories
    /\ cryptography_available \in BOOLEAN
    /\ instance = NewInstance
    /\ issued = {}
    /\ enc_last = NoEncrypt

\* self._encrypt_data(data, self.security_levels[level]); key is what
\* Fernet.generate_key() returns when the call gets that far.
EncryptData(data, level, key) ==
    LET setting == EncryptionSetting(level)
        generated == SettingOn(setting) /\ cryptography_available
        result == _encrypt_data(data, setting, cryptography_available, key)
    IN /\ enc_last' = [called |-> TRUE, data |-> data, setting |-> setting,
                       key |-> IF generated THEN key ELSE NoFernetKey,
                       result |-> result]
       /\ instance' = IF generated THEN InstanceAfterEncrypt(instance, key) ELSE instance
       /\ issued' = IF result.encrypted THEN issued \cup {result.token} ELSE issued
       /\ UNCHANGED <<requests_available, api_key_set, probe, probe_count,
                      service_registry, cache, offline_mode, clock, okret, last,
                      adapter_run, cryptography_available, domain_vars, memory_vars>>

SecurityNext ==
    \E data \in DataSet, level \in SecurityLevels, key \in FernetKeys :
       EncryptData(data, level, key)

SecuritySpec == SecurityInit /\ [][SecurityNext]_vars

----------------------------------------------------------------------------
(* The phase 5 classes on top of the manager *)

\* The domain names and user contexts a caller may pass.
DomainNames ==
    {DomainOrder[i] : i \in DOMAIN DomainOrder} \cup {"cooking", "Mathematics"}

UserContexts == {NoLevel, ContextDict}

\* MathematicsMastery.solve_problem(problem_text, user_level)
SolveProblem(problem_text, user_level, outcome) ==
    LET level == EffectiveLevel(user_level)
        consulted == Consults(level)
    IN /\ IF consulted
          THEN MakeApiCall("wolfram_alpha", "query", QueryParams(problem_text),
                           MathKey(problem_text), outcome)
          ELSE UNCHANGED <<requests_available, api_key_set, probe, probe_count,
                           service_registry, cache, offline_mode, clock, okret, last,
                           others>>
       /\ dom_last' =
            [op |-> "solve_problem", domain |-> "", problem |-> problem_text,
             user_level |-> user_level, route |-> "", consulted |-> consulted,
             api_service |-> IF consulted THEN last'.service_name ELSE "",
             api_key |-> IF consulted THEN last'.cache_key ELSE NoKey,
             api_success |-> consulted /\ last'.result.success,
             out |-> solve_problem(problem_text, user_level, consulted,
                                   consulted /\ last'.result.success)]
       /\ UNCHANGED <<domains, memory_vars>>

\* DomainMasteryManager.get_domain_expertise(domain_name, query, user_context)
GetDomainExpertise(domain_name, query, user_context, outcome) ==
    LET route == Route(domains, domain_name)
        service == ServiceOfRoute(route)
    IN /\ IF service # ""
          THEN MakeApiCall(service, "query", EmptyParams, NoKey, outcome)
          ELSE UNCHANGED <<requests_available, api_key_set, probe, probe_count,
                           service_registry, cache, offline_mode, clock, okret, last,
                           others>>
       /\ dom_last' =
            [op |-> "get_domain_expertise", domain |-> domain_name, problem |-> query,
             user_level |-> user_context, route |-> route, consulted |-> service # "",
             api_service |-> service, api_key |-> NoKey,
             api_success |-> service # "" /\ last'.result.success,
             out |-> IF route = "_compassionate_fallback"
                     THEN _compassionate_fallback(domain_name, query)
                     ELSE DomainHandler(ExpertOutcome(route, query, user_context))]
       /\ UNCHANGED <<domains, memory_vars>>

DomainNext ==
    \/ \E problem_text \in Problems, user_level \in UserLevels :
          \E outcome \in OutcomesFor("wolfram_alpha") :
             SolveProblem(problem_text, user_level, outcome)
    \/ \E domain_name \in DomainNames, query \in Problems, user_context \in UserContexts :
          GetDomainExpertise(domain_name, query, user_context, "ok")

DomainSpec == Init /\ [][DomainNext]_vars

----------------------------------------------------------------------------
(* ContextMemory on its own *)

\* The number of store_conversation calls of a run.
MaxStores == 4

\* The number of store_conversation calls of a long run, and the number of
\* its first calls whose input varies.
TimelineStores == 503
VariedStores == 1

\* The max_memories argument of the constructor.
MaxMemoriesSet == {2, default_max_memories}

\* The (user_input, analysis) arguments of store_conversation.
StoreInputs ==
    {<<"hello", Analysis("neutral", "general")>>,
     <<"i love math help", Analysis("positive", "mathematics")>>,
     <<"you know me", Analysis("supportive", "relationship")>>,
     <<"i feel sad", Analysis("supportive", "general")>>}

RepeatedInput == <<"hello", Analysis("neutral", "general")>>

CurrentInputs == {"hello", "i love math help", "i feel sad"}

MaxContexts == {1, 5}

MemoryInit ==
    /\ ManagerInit
    /\ ~requests_available
    /\ max_memories \in MaxMemoriesSet
    /\ cryptography_available = FALSE
    /\ instance = NewInstance
    /\ issued = {}
    /\ enc_last = NoEncrypt

\* ContextMemory.store_conversation(user_input, ai_response, analysis)
StoreConversation(user_input, analysis) ==
    LET now == mem_time + 1
        conversation_id == ConversationId(user_input, now)
        entry == memory_entry(user_input, analysis, now)
    IN /\ mem_time' = now
       /\ conversation_graph' = (conversation_id :> entry) @@ conversation_graph
       /\ emotional_timeline' =
             DequeAppend(emotional_timeline, TimelineEntry(entry), timeline_maxlen)
       /\ mem_last' = [op |-> "store_conversation", user_input |-> user_input,
                       analysis |-> analysis, max_context |-> 0,
                       before |-> Cardinality(DOMAIN conversation_graph),
                       out |-> StoreOutcome(conversation_id)]
       /\ UNCHANGED <<requests_available, api_key_set, probe, probe_count,
                      service_registry, cache, offline_mode, clock, okret, last,
                      others, domain_vars, max_memories>>

\* ContextMemory.get_relevant_context(current_input, max_context)
GetRelevantContext(current_input, max_context) ==
    /\ mem_last' = [op |-> "get_relevant_context", user_input |-> current_input,
                    analysis |-> Analysis(ToneOf(current_input), DomainOf(current_input)),
                    max_context |-> max_context,
                    before |-> Cardinality(DOMAIN conversation_graph),
                    out |-> get_relevant_context(conversation_graph, current_input,
                                                 max_context, mem_time)]
    /\ UNCHANGED <<requests_available, api_key_set, probe, probe_count,
                   service_registry, cache, offline_mode, clock, okret, last,
                   others, domain_vars, conversation_graph, emotional_timeline,
                   max_memories, mem_time>>

MemoryNext ==
    \/ \E input \in StoreInputs :
          /\ mem_time < MaxStores
          /\ StoreConversation(input[1], input[2])
    \/ \E current_input \in CurrentInputs, max_context \in MaxContexts :
          GetRelevantContext(current_input, max_context)

MemorySpec == MemoryInit /\ [][MemoryNext]_vars

\* A long run of store_conversation calls.
TimelineNext ==
    \E input \in IF mem_time < VariedStores THEN StoreInputs ELSE {RepeatedInput} :
       /\ mem_time < TimelineStores
       /\ StoreConversation(input[1], input[2])

TimelineSpec == MemoryInit /\ [][TimelineNext]_vars

----------------------------------------------------------------------------
(* Shorthands of the properties *)

\* The step is a make_api_call.
IsCall == last' # last

Registered(name) == name \in DOMAIN service_registry

EnvelopeKeys == {"success", "error", "timestamp", "offline_mode"}

TypeOK ==
    /\ requests_available \in BOOLEAN
    /\ api_key_set \in BOOLEAN
    /\ probe \in ProbeOutcomes \cup {"none"}
    /\ offline_mode \in BOOLEAN
    /\ clock \in 0 .. MaxClock
    /\ DOMAIN cache \subseteq CacheKeys
    /\ DOMAIN okret \subseteq CacheKeys
    /\ last.path \in {"none", "error", "hit", "miss"}

----------------------------------------------------------------------------
(* Properties of make_api_call and of the constructor *)

\* C1 (as stated): of two successive calls with the same cache key made less
\* than 300 seconds apart, the second returns the object the first returned.
C1_AnyTwoCallsSameObject ==
    [][(/\ IsCall
        /\ last.path # "none"
        /\ Truthy(last.cache_key)
        /\ last'.cache_key = last.cache_key)
       => last'.result.id = last.result.id]_vars

\* C1 (amended): when a call with a truthy cache key to a registered service
\* returned a result that reports success, every later call with that key to
\* a registered service made less than 300 seconds after that result was
\* stored returns the identical object.
C1_SameObjectWithinTTL ==
    [][(/\ IsCall
        /\ Registered(last'.service_name)
        /\ last'.cache_key \in DOMAIN okret
        /\ clock - okret[last'.cache_key].ts < 300)
       => last'.result.id = okret[last'.cache_key].id]_vars

\* A second call got the object a call 150 seconds earlier returned.
C1_Witness ==
    /\ last.path = "hit"
    /\ last.cache_key \in DOMAIN okret
    /\ okret[last.cache_key].id = last.result.id
    /\ clock - okret[last.cache_key].ts = 150

\* C2: a call with a registered service and a key whose entry was stored less
\* than 300 seconds ago returns the stored result of the entry and invokes
\* no adapter method.
C2_FreshEntryServed ==
    [][(/\ IsCall
        /\ Registered(last'.service_name)
        /\ last'.cache_key \in DOMAIN cache
        /\ clock - cache[last'.cache_key].timestamp < 300)
       => /\ last'.result = cache[last'.cache_key].data
          /\ last'.invoked = <<>>
          /\ ~last'.raised]_vars

\* An entry stored by one service was served, without an adapter call, to a
\* call of another service.
C2_Witness ==
    /\ last.path = "hit"
    /\ last.invoked = <<>>
    /\ last.age \in 0 .. 299
    /\ last.service_name = "data_analysis"
    /\ last.result.source \in {"offline_math", "wolfram_alpha"}

\* C3: when the entry under the key is 300 seconds old or older, a call with
\* that key and a registered service invokes the adapter and does not return
\* the cached entry; when the result reports success the entry under the key
\* becomes the new result with the current time as timestamp.
C3_ExpiredEntryRefreshed ==
    [][(/\ IsCall
        /\ Registered(last'.service_name)
        /\ last'.cache_key \in DOMAIN cache
        /\ clock - cache[last'.cache_key].timestamp >= 300)
       => /\ Len(last'.invoked) = 1
          /\ last'.result.id # cache[last'.cache_key].data.id
          /\ last'.result.born = clock
          /\ last'.result.success
                => /\ cache'[last'.cache_key].data = last'.result
                   /\ cache'[last'.cache_key].timestamp = clock
                   /\ cache'[last'.cache_key].timestamp > cache[last'.cache_key].timestamp]_vars

\* An entry of exactly 300 seconds was replaced by a fresh successful result.
C3_Witness ==
    /\ last.path = "miss"
    /\ last.age = 300
    /\ last.result.success
    /\ last.cache_key \in DOMAIN cache
    /\ cache[last.cache_key].data = last.result
    /\ cache[last.cache_key].timestamp = clock

\* C4: a call with an unregistered service name returns the standard error
\* envelope, invokes no adapter and does not return a cached entry, whatever
\* the cache holds under the key.
C4_UnknownServiceEnvelope ==
    (last.path # "none" /\ ~Registered(last.service_name))
       => /\ last.result.keys = EnvelopeKeys
          /\ last.result.success = FALSE
          /\ last.result.error = "Service " \o last.service_name \o " not available"
          /\ last.result.offline_mode = offline_mode
          /\ last.result.born = clock
          /\ last.invoked = <<>>
          /\ \A k \in DOMAIN cache : cache[k].data.id # last.result.id

\* An unregistered service was called with a key whose entry is fresh.
C4_Witness ==
    /\ last.service_name = "weather"
    /\ last.cache_key = "k1"
    /\ last.age \in 0 .. 299
    /\ last.result.error = "Service weather not available"

\* C5: offline_mode is TRUE whenever the network library is unavailable, the
\* probe raised or the probe answered another status than 200; it is FALSE
\* only when the probe was made and answered 200.
C5_OfflineModeFromProbe ==
    /\ ~requests_available => offline_mode /\ probe_count = 0
    /\ probe = "raise" => offline_mode
    /\ probe \in ProbeOutcomes \ {"200", "raise"} => offline_mode
    /\ ~offline_mode => requests_available /\ probe = "200" /\ probe_count = 1

\* The manager is constructed and the probe answered status 500.
C5_Witness ==
    /\ last = NoCall
    /\ clock = 0
    /\ requests_available
    /\ probe = "500"
    /\ offline_mode

\* C6: for a registered service on a cache miss, an error raised by the
\* adapter method is caught and returned as the standard error envelope with
\* the error 'API call failed: <message>'; it is not propagated.
C6_AdapterErrorCaught ==
    last.raised
       => /\ ~last.propagated
          /\ last.result.keys = EnvelopeKeys
          /\ last.result.success = FALSE
          /\ last.result.error = "API call failed: " \o NoneGetError
          /\ last.result.offline_mode = offline_mode
          /\ last.result.born = clock

\* make_call of an adapter raised and the caller got the envelope.
C6_Witness ==
    /\ last.raised
    /\ last.path = "miss"
    /\ last.invoked = <<"make_call">>
    /\ last.result.error = "API call failed: " \o NoneGetError

\* C7: every cache entry holds a result whose 'success' is true; failure
\* results and error envelopes are never stored.
C7_OnlySuccessStored ==
    \A k \in DOMAIN cache :
        /\ cache[k].data.success
        /\ cache[k].data.keys # EnvelopeKeys
        /\ "error" \notin cache[k].data.keys

\* A call with a cache key returned a failure result, which was not stored.
C7_Witness ==
    /\ last.path = "miss"
    /\ ~last.raised
    /\ ~last.result.success
    /\ Truthy(last.cache_key)
    /\ last.cache_key \notin DOMAIN cache

\* C8: a result served from the cache was built by an adapter call that
\* completed strictly less than 300 seconds before the call returning it.
C8_StalenessBelowTTL ==
    last.path = "hit"
       => /\ clock - last.result.born < 300
          /\ clock - last.result.born >= 0
          /\ last.result.keys # EnvelopeKeys

\* A result built 150 seconds earlier was served from the cache.
C8_Witness ==
    /\ last.path = "hit"
    /\ last.result.born = 150
    /\ clock = 300
    /\ last.age = 150

\* C9: no step removes a cache key; an entry changes only when a successful
\* miss with its key overwrites it; a successful miss with a new key adds
\* exactly that key.
C9_NoEviction ==
    [][/\ DOMAIN cache \subseteq DOMAIN cache'
       /\ \A k \in DOMAIN cache :
             cache'[k] # cache[k]
                => /\ IsCall
                   /\ last'.cache_key = k
                   /\ last'.path = "miss"
                   /\ last'.result.success
                   /\ cache'[k].data = last'.result
       /\ (/\ IsCall
           /\ last'.path = "miss"
           /\ last'.result.success
           /\ Truthy(last'.cache_key)
           /\ last'.cache_key \notin DOMAIN cache)
          => /\ DOMAIN cache' = DOMAIN cache \cup {last'.cache_key}
             /\ Cardinality(DOMAIN cache') = Cardinality(DOMAIN cache) + 1]_vars

\* An expired entry is still stored after a failed refresh under its key,
\* next to an entry under another key.
C9_Witness ==
    /\ last.path = "miss"
    /\ ~last.result.success
    /\ last.age >= 300
    /\ last.cache_key \in DOMAIN cache
    /\ clock - cache[last.cache_key].timestamp >= 300
    /\ Cardinality(DOMAIN cache) = 2

\* C10: a miss invokes get_offline_response when offline_mode is TRUE and
\* make_call when it is FALSE; no step after construction probes the
\* connectivity or changes offline_mode.
C10_ModeFromFlag ==
    [][/\ offline_mode' = offline_mode
       /\ probe_count' = probe_count
       /\ (IsCall /\ last'.path = "miss")
             => last'.invoked = <<IF offline_mode THEN "get_offline_response"
                                                  ELSE "make_call">>
       /\ (IsCall /\ last'.path # "miss") => last'.invoked = <<>>]_vars

\* An online manager invoked make_call, the call raised and the manager is
\* still online.
C10_Witness ==
    /\ last.path = "miss"
    /\ last.invoked = <<"make_call">>
    /\ last.raised
    /\ ~offline_mode
    /\ probe = "200"

\* C11: every result of make_api_call that does not report success is a
\* dictionary with 'success' False and an 'error' message: the unknown-service
\* envelope, the envelope of a caught adapter error and the failure an
\* adapter returns itself.
C11_UniformFailureShape ==
    (last.path # "none" /\ ~last.result.success)
       => /\ {"success", "error"} \subseteq last.result.keys
          /\ last.result.success = FALSE
          /\ last.result.error # ""
          /\ last.path = "error" => last.result.keys = EnvelopeKeys
          /\ last.raised => last.result.keys = EnvelopeKeys

\* The adapter itself returned a failure, which the caller got as it is.
C11_Witness ==
    /\ last.path = "miss"
    /\ ~last.raised
    /\ ~last.result.success
    /\ last.result.keys = {"success", "error", "suggestion"}
    /\ last.result.error = "Offline math computation not available for this query"

\* C12: one make_api_call invokes at most one adapter method, once; after an
\* adapter error or an unsuccessful result there is no second attempt and the
\* other mode is not tried.
C12_NoRetry ==
    /\ Len(last.invoked) <= 1
    /\ last.path = "miss" => Len(last.invoked) = 1
    /\ (last.path = "miss" /\ (last.raised \/ ~last.result.success))
          => last.invoked = <<IF offline_mode THEN "get_offline_response" ELSE "make_call">>

\* An online call returned a failure after the one make_call.
C12_Witness ==
    /\ last.path = "miss"
    /\ ~last.raised
    /\ ~last.result.success
    /\ ~offline_mode
    /\ last.invoked = <<"make_call">>

\* C13: in offline mode a make_api_call to a registered service attempts no
\* outbound request and returns canned data of the adapter (not the error
\* envelope), whatever the endpoint and the params are.
C13_OfflineCannedNoNetwork ==
    (last.path # "none" /\ offline_mode /\ Registered(last.service_name))
       => /\ ~last.network
          /\ ~last.raised
          /\ last.result.keys # EnvelopeKeys

\* C14: WolframAlphaAdapter.make_call without an API key, or with an outbound
\* request that raises, returns what get_offline_response returns for the
\* same endpoint and params, and does not raise.
C14_MakeCallDegrades ==
    (/\ adapter_run.class = "WolframAlphaAdapter"
     /\ adapter_run.method = "make_call"
     /\ (~api_key_set \/ adapter_run.outcome = "raise"))
       => /\ ~adapter_run.out.raised
          /\ \E endpoint \in Endpoints :
                adapter_run.out = Wolfram_get_offline_response(endpoint, adapter_run.params)

\* C15: a fresh entry stored under a key by a call to one service is returned
\* by a call with that key to another registered service, and no adapter of
\* that service is invoked: the key alone selects the entry.
C15_KeyAloneSelects ==
    [][(/\ IsCall
        /\ Registered(last'.service_name)
        /\ last'.cache_key \in DOMAIN cache
        /\ clock - cache[last'.cache_key].timestamp < 300
        /\ cache[last'.cache_key].data.source \notin SourcesOf(last'.service_name))
       => /\ last'.path = "hit"
          /\ last'.result = cache[last'.cache_key].data
          /\ last'.invoked = <<>>
          /\ ~last'.network]_vars

\* A call to wolfram_alpha got the result the data-analysis adapter had built.
C15_Witness ==
    /\ last.path = "hit"
    /\ last.service_name = "wolfram_alpha"
    /\ last.result.source = "data_analysis"
    /\ last.invoked = <<>>

\* C17: a make_api_call whose result does not report success (unknown
\* service, adapter error, failure returned by the adapter) leaves the cache
\* as it was; an expired entry under the key survives the failed refresh and
\* is not the result of the call.
C17_FailureKeepsCache ==
    [][(IsCall /\ last'.path # "none" /\ ~last'.result.success)
       => /\ cache' = cache
          /\ last'.path \in {"error", "miss"}
          /\ last'.cache_key \in DOMAIN cache
                => /\ last'.cache_key \in DOMAIN cache'
                   /\ cache'[last'.cache_key].timestamp = cache[last'.cache_key].timestamp
                   /\ last'.result.id # cache[last'.cache_key].data.id]_vars

\* The adapter raised on the refresh of an expired entry, which is still the
\* only entry of the cache and still expired.
C17_Witness ==
    /\ last.raised
    /\ last.age >= 300
    /\ last.cache_key \in DOMAIN cache
    /\ cache[last.cache_key].timestamp = 0
    /\ clock - cache[last.cache_key].timestamp >= 300
    /\ Cardinality(DOMAIN cache) = 1

\* C18: a cache hit leaves the cache as it was; the timestamp of an entry is
\* the time at which its result was stored, so a key whose entry was stored
\* 300 seconds ago or earlier misses however often it was read since.
C18_NoSlidingExpiration ==
    [][/\ (IsCall /\ last'.path = "hit") => cache' = cache
       /\ \A k \in DOMAIN cache' : cache'[k].timestamp = cache'[k].data.born
       /\ (/\ IsCall
           /\ Registered(last'.service_name)
           /\ last'.cache_key \in DOMAIN cache
           /\ clock - cache[last'.cache_key].data.born >= 300)
          => last'.path = "miss"]_vars

\* An entry stored at time 0 was read at time 150 and still bears time 0.
C18_Witness ==
    /\ last.path = "hit"
    /\ clock = 150
    /\ last.age = 150
    /\ cache[last.cache_key].timestamp = 0
    /\ cache[last.cache_key].data = last.result

\* C19: a call to a registered service without a cache key (None or the
\* empty string) invokes the adapter, returns no cached object and leaves
\* the cache as it was, also when the result reports success.
C19_NoKeyNoCache ==
    [][(/\ IsCall
        /\ last'.cache_key \in {NoKey, ""}
        /\ Registered(last'.service_name))
       => /\ last'.path = "miss"
          /\ Len(last'.invoked) = 1
          /\ cache' = cache
          /\ last'.cache_key \notin DOMAIN cache'
          /\ \A k \in DOMAIN cache : cache[k].data.id # last'.result.id]_vars

\* A call with the empty string as key succeeded next to a filled cache and
\* nothing was stored under the empty string.
C19_Witness ==
    /\ last.path = "miss"
    /\ last.cache_key = ""
    /\ last.result.success
    /\ "" \notin DOMAIN cache
    /\ DOMAIN cache # {}

\* C20: the registry holds exactly the nine service names of
\* _initialize_services, and no step adds, removes or replaces an adapter.
C20_RegistryFixed ==
    [][/\ DOMAIN service_registry =
             {"wolfram_alpha", "math_computation", "calendar_simulator",
              "task_simulator", "data_analysis", "accounting_simulator",
              "agriculture_simulator", "project_simulator", "relationship_analyzer"}
       /\ Cardinality(DOMAIN service_registry) = 9
       /\ service_registry' = service_registry]_vars

\* After calls up to time 300, one of them to an unregistered name, the
\* registry holds nine names and not the unregistered one.
C20_Witness ==
    /\ last.path = "error"
    /\ clock = 300
    /\ cache # <<>>
    /\ Cardinality(DOMAIN service_registry) = 9
    /\ last.service_name \notin DOMAIN service_registry
    /\ service_registry["relationship_analyzer"] = "RelationshipAdapter"

\* The keys some state holds after a call of _encrypt_data: those in the
\* attributes of the object and the fields of the returned value.
KeysKept == instance.keys \cup {enc_last.result.key_id, enc_last.result.warning}

\* C16: the key _encrypt_data generates is in no field of the returned value
\* and in no attribute of the object after the call, so nothing holds a key
\* under which a ciphertext returned so far decrypts; with a falsy
\* 'encryption' setting or without the cipher library the call returns its
\* data argument itself.
C16_KeyDiscarded ==
    /\ instance = [attrs |-> {"security_levels"}, keys |-> {}]
    /\ enc_last.key # NoFernetKey => enc_last.key \notin KeysKept
    /\ \A t \in issued : t.under \in FernetKeys /\ t.under \notin KeysKept
    /\ enc_last.result.encrypted
          => /\ enc_last.result.token.under = enc_last.key
             /\ enc_last.result.key_id = "env_derived"
             /\ enc_last.result.keys = {"encrypted", "data", "key_id"}
    /\ (enc_last.called /\ (enc_last.setting = "False" \/ ~cryptography_available))
          => /\ enc_last.result.is_input
             /\ enc_last.result.plain = enc_last.data
             /\ ~enc_last.result.encrypted
             /\ enc_last.key = NoFernetKey

\* Two ciphertexts made under two keys are out and no key is left; the last
\* call encrypted a dictionary under the 'end_to_end' setting.
C16_Witness ==
    /\ enc_last.result.encrypted
    /\ enc_last.setting = "end_to_end"
    /\ enc_last.data.is_dict
    /\ enc_last.key \in FernetKeys
    /\ {t.under : t \in issued} = FernetKeys
    /\ instance.keys = {}

\* C21: for a dictionary of params, WolframAlphaAdapter.get_offline_response
\* tries derivative, integral, solve, calculate in that order on the
\* lower-cased query and returns the success result (source 'offline_math')
\* of the first keyword that occurs and whose calculator recognises a
\* pattern, a keyword whose calculator recognises nothing being passed over;
\* when no keyword yields a result it returns the failure with an error and a
\* suggestion.
C21_FirstYieldingKeyword ==
    (/\ adapter_run.class = "WolframAlphaAdapter"
     /\ adapter_run.method = "get_offline_response"
     /\ ~adapter_run.params.none)
       => LET query == LowerQuery(adapter_run.params.query)
              order == <<"derivative", "integral", "solve", "calculate">>
              Yields(i) == /\ Contains(query, order[i])
                           /\ Calculator(order[i], query) # NoAnswer
              res == adapter_run.out.res
          IN /\ ~adapter_run.out.raised
             /\ ~adapter_run.network
             /\ \A i \in 1 .. 4 :
                   (Yields(i) /\ \A j \in 1 .. i - 1 : ~Yields(j))
                      => /\ res.success
                         /\ res.source = "offline_math"
                         /\ res.data = Calculator(order[i], query)
                         /\ res.keys = {"success", "data", "source", "cached"}
             /\ (\A i \in 1 .. 4 : ~Yields(i))
                   => /\ ~res.success
                      /\ res.keys = {"success", "error", "suggestion"}
                      /\ res.error = "Offline math computation not available for this query"

\* The query names derivative, whose calculator recognises nothing in it, and
\* calculate, whose calculator gave the answer.
C21_Witness ==
    /\ adapter_run.class = "WolframAlphaAdapter"
    /\ adapter_run.method = "get_offline_response"
    /\ adapter_run.params = QueryParams(<<"Derivative", "of", "y", "then", "Calculate", "2+2">>)
    /\ adapter_run.out.res.success
    /\ adapter_run.out.res.data = "4"

\* C22: solve_problem asks the API manager (service wolfram_alpha, cache key
\* made of the problem text) exactly when the effective level is INTERMEDIATE
\* or higher, never at BEGINNER level; when it does not ask, or the result
\* does not report success, it returns the response of the local computation.
C22_ConsultsFromIntermediate ==
    LET level == IF dom_last.user_level = NoLevel THEN "BEGINNER" ELSE dom_last.user_level
    IN (dom_last.op = "solve_problem" /\ level \in MathProficiency)
          => /\ dom_last.consulted <=> level \in {"INTERMEDIATE", "ADVANCED", "EXPERT"}
             /\ level = "BEGINNER" => ~dom_last.consulted
             /\ dom_last.consulted
                   => /\ dom_last.api_service = "wolfram_alpha"
                      /\ dom_last.api_key = "math_" \o HashOf(dom_last.problem)
             /\ (~dom_last.consulted \/ ~dom_last.api_success)
                   => /\ ~dom_last.out.raised
                      /\ dom_last.out.text = LocalSolution(dom_last.problem, level)

C25_AtMostMaxMemories ==
    Cardinality(DOMAIN conversation_graph) <= max_memories

\* C26: emotional_timeline holds at most 500 entries; a store_conversation
\* puts its entry (timestamp, tone, domain) at the end, the entries before it
\* stay in their order, and when 500 were held the first one is dropped.
C26_TimelineKeepsLast500 ==
    [][(mem_last' # mem_last /\ mem_last'.op = "store_conversation")
       => LET old == emotional_timeline
              new == emotional_timeline'
              shift == IF Len(old) = 500 THEN 1 ELSE 0
          IN /\ Len(new) <= 500
             /\ Len(new) = Len(old) + 1 - shift
             /\ new[Len(new)] = [timestamp |-> mem_time',
                                 tone |-> mem_last'.analysis.tone,
                                 domain |-> mem_last'.analysis.domain]
             /\ \A i \in 1 .. Len(new) - 1 : new[i] = old[i + shift]
             /\ \A i \in 1 .. Len(new) - 1 : new[i].timestamp < new[i + 1].timestamp]_vars

\* After 502 stores the timeline holds the entries of the last 500.
C26_Witness ==
    /\ mem_last.op = "store_conversation"
    /\ mem_time = 502
    /\ Len(emotional_timeline) = 500
    /\ emotional_timeline[1].timestamp = 3
    /\ emotional_timeline[500].timestamp = 502

\* C27: get_relevant_context returns at most max_context memories, each of a
\* relevance above 0.3 (0.4 same domain, 0.3 same tone, 0.3 less than 7 days
\* old), in the order of non-increasing relevance, no memory left out being
\* more relevant than one returned; conversation_graph is as before.
C27_MostRelevantReturned ==
    mem_last.op = "get_relevant_context"
       => LET returned == mem_last.out.memories
              Score(m) == (IF m.domain_intent = mem_last.analysis.domain THEN 4 ELSE 0)
                          + (IF m.emotional_tone = mem_last.analysis.tone THEN 3 ELSE 0)
                          + (IF mem_time - m.timestamp < 7 THEN 3 ELSE 0)
              chosen == {returned[i] : i \in DOMAIN returned}
              stored == {conversation_graph[k] : k \in DOMAIN conversation_graph}
          IN /\ ~mem_last.out.raised
             /\ Len(returned) <= mem_last.max_context
             /\ chosen \subseteq stored
             /\ \A m \in chosen : Score(m) > 3
             /\ \A i \in 1 .. Len(returned) - 1 : Score(returned[i]) >= Score(returned[i + 1])
             /\ \A m \in stored \ chosen : \A c \in chosen : Score(m) <= Score(c)
             /\ Cardinality(DOMAIN conversation_graph) = mem_last.before

====
